---- MODULE Spec2Model ----
(***************************************************************************)
(* Model of app.py: the MT5 market-data broadcast server.                  *)
(*                                                                         *)
(* State: the per-connection subscription registry client_sessions (a      *)
(* Python dict of sets, iterated live by the broadcaster), the two caches  *)
(* the broadcaster writes, the feed login flag, the position of the        *)
(* background task continuous_update inside update_rates_cache, and the    *)
(* gateway state of every connection.  Strings are sequences of one        *)
(* character strings so that upper() and title() are computed, not assumed.*)
(*                                                                         *)
(* The broadcaster is interleaved with the connection handlers between two *)
(* (connection, symbol) iterations: the feed calls and socketio.emit are   *)
(* the points where the background task may be suspended.                  *)
(***************************************************************************)
EXTENDS Integers, Sequences, FiniteSets, TLC

\* ---------------------------------------------------------------- bounds
NumSids == 2
MaxPrice == 2
MaxCount == 2

Sids == 1..NumSids
Prices == 1..MaxPrice

\* ---------------------------------------------------------------- strings
LowerCs == <<"a","b","c","d","e","f","g","h","i","j","k","l","m",
             "n","o","p","q","r","s","t","u","v","w","x","y","z">>
UpperCs == <<"A","B","C","D","E","F","G","H","I","J","K","L","M",
             "N","O","P","Q","R","S","T","U","V","W","X","Y","Z">>

\* A cased character outside ASCII: U+212A KELVIN SIGN is upper case, upper() keeps
\* it and lower() maps it to the ASCII letter k.
KelvinSign == "U+212A"

IsLower(ch) == \E i \in 1..Len(LowerCs) : LowerCs[i] = ch
IsUpper(ch) == ch = KelvinSign \/ \E i \in 1..Len(UpperCs) : UpperCs[i] = ch
IsCased(ch) == IsLower(ch) \/ IsUpper(ch)

UpperChar(ch) ==
    IF IsLower(ch) THEN UpperCs[CHOOSE i \in 1..Len(LowerCs) : LowerCs[i] = ch] ELSE ch
LowerChar(ch) ==
    IF ch = KelvinSign THEN "k"
    ELSE IF IsUpper(ch) THEN LowerCs[CHOOSE i \in 1..Len(UpperCs) : UpperCs[i] = ch]
    ELSE ch

\* str.upper()
StrUpper(s) == [i \in 1..Len(s) |-> UpperChar(s[i])]

\* str.title(): a cased character is upper-cased when it starts a run of cased
\* characters and lower-cased when it continues one.
StrTitle(s) ==
    [i \in 1..Len(s) |->
        IF i = 1 \/ ~IsCased(s[i - 1]) THEN UpperChar(s[i]) ELSE LowerChar(s[i])]

GOLD == <<"G","O","L","D">>
SILVER == <<"S","I","L","V","E","R">>
PLATINUM == <<"P","L","A","T","I","N","U","M">>
XAUUSD == <<"X","A","U","U","S","D">>
XAGUSD == <<"X","A","G","U","S","D">>
XPTUSD == <<"X","P","T","U","S","D">>

\* SYMBOL_MAP as a set of <<alias, canonical>> pairs
SYMBOL_MAP == { <<GOLD, XAUUSD>>, <<SILVER, XAGUSD>>, <<PLATINUM, XPTUSD>> }
SymbolMapValues == { m[2] : m \in SYMBOL_MAP }
REVERSE_SYMBOL_MAP == { <<m[2], m[1]>> : m \in SYMBOL_MAP }

\* dict.get(key, default) on a set of <<key, value>> pairs
MapGet(map, key, default) ==
    IF \E m \in map : m[1] = key THEN (CHOOSE m \in map : m[1] = key)[2] ELSE default

normalize_symbol_keeps_case(symbol) == MapGet(SYMBOL_MAP, symbol, symbol)

normalize_symbol(symbol) == MapGet(SYMBOL_MAP, StrUpper(symbol), StrUpper(symbol))

\* REVERSE_SYMBOL_MAP.get(mt5_symbol, symbol).title()
DisplayName(mt5_symbol, symbol) == StrTitle(MapGet(REVERSE_SYMBOL_MAP, mt5_symbol, symbol))

SERVER_SECRET_KEY == "aurify@123"

\* ---------------------------------------------------------------- inputs
\* Credentials a client may present in the `secret` query parameter
\* ("" stands for a missing parameter).
Secrets == { "aurify@123", "aurify", "" }

gold_lc == <<"g","o","l","d">>
Silver_tc == <<"S","i","l","v","e","r">>
platinum_lc == <<"p","l","a","t","i","n","u","m">>
xauusd_lc == <<"x","a","u","u","s","d">>
eurusd_lc == <<"e","u","r","u","s","d">>
xk_kelvin == <<"x", KelvinSign>>

\* Event payloads: a list of strings, or a bare string (items[1]).
ListOf(items) == [islist |-> TRUE, items |-> items]
Bare(item) == [islist |-> FALSE, items |-> <<item>>]


\* Feed answers.
TradeModes == { "FULL", "DISABLED", "CLOSEONLY", "NOINFO" }
\* Python's None where a number is expected
NoneVal == 0 - 1
NoBar == [close |-> NoneVal, high |-> NoneVal, low |-> NoneVal]
NoDay == [high |-> NoneVal, low |-> NoneVal]
\* copy_rates_from(symbol, D1, 1, 1): the previous daily bar, a fixed fact per symbol
SymbolIndex(symbol) == CHOOSE i \in 1..3 : <<XAUUSD, XAGUSD, XPTUSD>>[i] = symbol
PrevBar(symbol) ==
    [close |-> 3 * SymbolIndex(symbol), high |-> 3 * SymbolIndex(symbol) + 1,
     low |-> 3 * SymbolIndex(symbol) - 1]
\* copy_rates_range(symbol, D1, midnight, now): today's bar so far
DayBars == { [high |-> 2 * p + 1, low |-> 2 * p - 1] : p \in Prices }

\* ---------------------------------------------------------------- state
VARIABLES
    conn,                     \* gateway state of each connection id
    outbox,                   \* handshake events emitted to each connection's room
    client_sessions,          \* the dict: entries in insertion order, deleted ones left as holes
    mt5_initialized,
    logins,                   \* observation: successful logins to the feed so far
    last_market_update_cache,
    high_low_cache,
    pc,                       \* where the process / the background task is
    di,                       \* iterator of client_sessions.items() (line 141)
    cur,                      \* loop variables sid, symbols and the set iterator (line 142)
    \* observation (history) variables
    mutated,                  \* the registry changed since the current tick started
    done,                     \* the last tick ran to completion
    visited,                  \* the connections the tick's outer loop has yielded, in order
    emits,                    \* emit calls made for the last visited connection, per (room, symbol)
    failed,                   \* its pairs whose feed calls failed or raised
    stale,                    \* emits of the current tick to the loop's sid made after its drop
    closedAtStart,            \* connections whose disconnect was handled before this tick started
    last,                     \* what the step just taken asked the feed and emitted
    fresh,                    \* pairs of the last request-data handled while the tick has been running
    \* the environment, fixed at startup
    scenario                  \* "broadcast": every connection id, three instruments, a feed
                              \*   whose markets are open and that has no daily bars;
                              \* "feed": one connection, two instruments, a feed with every
                              \*   trade mode and with daily bars;
                              \* "gateway": one connection, every payload, the feed of
                              \*   "broadcast";
                              \* "names": one connection, symbols with and without an
                              \*   alias, ASCII or not, the feed of "broadcast";
                              \* "pair": every connection id, two instruments, the feed
                              \*   of "broadcast"

vars == << conn, outbox, client_sessions, mt5_initialized, logins, last_market_update_cache,
           high_low_cache, pc, di, cur, mutated, done, visited, emits, failed, stale,
           closedAtStart, last, fresh, scenario >>

gateway == << conn, outbox >>
caches == << last_market_update_cache, high_low_cache >>
feedlogin == << mt5_initialized, logins >>
tickobs == << done, visited, emits, failed, stale, closedAtStart >>
env == << scenario >>
Clients == IF scenario \in {"broadcast", "pair"} THEN Sids ELSE {1}
RequestPayloads ==
    CASE scenario = "broadcast" -> { ListOf(<<GOLD, Silver_tc, platinum_lc>>) }
      [] scenario = "feed" -> { Bare(Silver_tc), ListOf(<<xauusd_lc, gold_lc>>) }
      [] scenario = "names" -> { Bare(gold_lc), Bare(eurusd_lc), Bare(xk_kelvin) }
      [] scenario = "pair" -> { ListOf(<<gold_lc, Silver_tc>>) }
      [] OTHER -> { Bare(Silver_tc), ListOf(<<xauusd_lc, gold_lc>>), Bare(eurusd_lc),
                    ListOf(<<GOLD, Silver_tc, platinum_lc>>), ListOf(<<>>) }
StopPayloads ==
    CASE scenario = "broadcast" -> { Bare(GOLD) }
      [] scenario = "feed" -> { Bare(GOLD), ListOf(<<xauusd_lc, Silver_tc>>) }
      [] scenario = "names" -> { Bare(GOLD) }
      [] scenario = "pair" -> { Bare(GOLD) }
      [] OTHER -> { Bare(GOLD), ListOf(<<xauusd_lc, Silver_tc>>), Bare(eurusd_lc),
                    ListOf(<<platinum_lc>>) }
\* what symbol_info, symbol_info_tick, copy_rates_from and copy_rates_range may answer
ModeAnswers == IF scenario = "feed" THEN TradeModes ELSE {"FULL"}
TickAnswers == IF scenario = "feed" THEN Prices \cup {NoneVal} ELSE {MaxPrice, NoneVal}
PrevAnswers(symbol) == IF scenario = "feed" THEN {PrevBar(symbol), NoBar} ELSE {NoBar}
DayAnswers == IF scenario = "feed" THEN DayBars \cup {NoDay} ELSE {NoDay}

\* ---------------------------------------------------------------- dict of sets
Hole == [key |-> 0, val |-> {}]
Keys(d) == { d[i].key : i \in 1..Len(d) } \ {0}
IndexOf(d, k) == CHOOSE i \in 1..Len(d) : d[i].key = k
Get(d, k) == d[IndexOf(d, k)].val
GetOr(d, k, default) == IF k \in Keys(d) THEN Get(d, k) ELSE default
\* defaultdict(set).__getitem__: a missing key is inserted with an empty set
DefaultGet(d, k) == IF k \in Keys(d) THEN d ELSE Append(d, [key |-> k, val |-> {}])
SetVal(d, k, v) == [d EXCEPT ![IndexOf(d, k)].val = v]
DictPopKeep(d, k) == d
DictPopClears(d, k) == IF k \in Keys(d) THEN SetVal(d, k, {}) ELSE d

\* dict.pop(k, None)
DictPop(d, k) == IF k \in Keys(d) THEN [d EXCEPT ![IndexOf(d, k)] = Hole] ELSE d
Pairs(d) == UNION { { <<k, s>> : s \in Get(d, k) } : k \in Keys(d) }

\* a cache dict as a function on the keys it holds
Put(cache, k, v) == [x \in DOMAIN cache \cup {k} |-> IF x = k THEN v ELSE cache[x]]
Count(e, pr) == IF pr \in DOMAIN e THEN e[pr] ELSE 0
Bump(e, pr) == Put(e, pr, IF Count(e, pr) < MaxCount THEN Count(e, pr) + 1 ELSE MaxCount)
EmptyMap == [x \in {} |-> 0]

NoIter == [used |-> 0, pos |-> 0, len |-> 0]
NoCur == [sid |-> 0, detached |-> FALSE, symbols |-> {}, used |-> 0, passed |-> {}]
NoEvent == [symbol |-> <<>>, bid |-> 0, high |-> 0, low |-> 0, marketStatus |-> "none"]
NoLast == [room |-> 0, mt5_symbol |-> <<>>, status |-> "none", tick |-> NoneVal,
           day |-> NoDay, event |-> NoEvent]

Running == pc \in {"sleep", "outer", "inner", "dead"}
InTick == pc \in {"outer", "inner"}
\* the set object the inner loop iterates
IterSet == IF cur.detached THEN cur.symbols ELSE GetOr(client_sessions, cur.sid, {})

ProgramInit ==
    /\ conn = [c \in Sids |-> "new"]
    /\ outbox = [c \in Sids |-> <<>>]
    /\ client_sessions = <<>>
    /\ mt5_initialized = FALSE
    /\ logins = 0
    /\ last_market_update_cache = EmptyMap
    /\ high_low_cache = EmptyMap
    /\ pc = "startup"
    /\ di = NoIter
    /\ cur = NoCur
    /\ mutated = FALSE
    /\ done = FALSE
    /\ visited = <<>>
    /\ emits = EmptyMap
    /\ failed = {}
    /\ stale = 0
    /\ closedAtStart = {}
    /\ last = NoLast
    /\ fresh = {}

\* Every connection id; the feed's markets are open and it has no daily bars.
Init ==
    /\ ProgramInit
    /\ scenario = "broadcast"

\* One connection, two instruments; the feed has every trade mode and daily bars.
InitFeed ==
    /\ ProgramInit
    /\ scenario = "feed"

\* One connection, every payload; the feed of Init.
InitGateway ==
    /\ ProgramInit
    /\ scenario = "gateway"

\* One connection, symbols with and without an alias; the feed of Init.
InitNames ==
    /\ ProgramInit
    /\ scenario = "names"

\* Every connection id, two instruments; the feed of Init.
InitPair ==
    /\ ProgramInit
    /\ scenario = "pair"

\* ---------------------------------------------------------------- startup
\* store_last_closing_values: rates is what copy_rates_from answered
StoreLastClosing(cache, symbol, rates) ==
    IF rates # NoBar THEN Put(cache, symbol, rates) ELSE cache

\* mt5.initialize() and mt5.login() succeeded (lines 118-123): the flag is set and
\* the last closing values of the mapped symbols the feed has bars for are stored
Login ==
    /\ logins' = IF logins < MaxCount THEN logins + 1 ELSE logins
    /\ mt5_initialized' = TRUE
    /\ \E stored \in SUBSET SymbolMapValues :
          /\ \A s \in stored : PrevBar(s) \in PrevAnswers(s)
          /\ last_market_update_cache' =
                [s \in DOMAIN last_market_update_cache \cup stored |->
                    IF s \in stored THEN PrevBar(s) ELSE last_market_update_cache[s]]

initialize_mt5_unguarded(ok) ==
    IF ok THEN Login
    ELSE UNCHANGED << mt5_initialized, logins, last_market_update_cache >>

\* initialize_mt5: ok is whether the feed accepts the login; the function returns
\* the flag, mt5_initialized'
initialize_mt5(ok) ==
    IF mt5_initialized THEN UNCHANGED << mt5_initialized, logins, last_market_update_cache >>
    ELSE IF ok THEN Login
    ELSE UNCHANGED << mt5_initialized, logins, last_market_update_cache >>

\* Module load (lines 131-133): a failed login quits the process.
Startup ==
    /\ pc = "startup"
    /\ \E ok \in BOOLEAN : initialize_mt5(ok)
    /\ pc' = IF mt5_initialized' THEN "sleep" ELSE "exited"
    /\ last' = NoLast
    /\ UNCHANGED << gateway, client_sessions, high_low_cache, di, cur, mutated,
                    tickobs, fresh, env >>

\* ---------------------------------------------------------------- connection handlers
AsList(payload) == IF payload.islist THEN payload.items ELSE << payload.items[1] >>
NormalizedSymbols(payload) ==
    { normalize_symbol(AsList(payload)[i]) : i \in 1..Len(AsList(payload)) }

RequestDataReplace(d, sid, payload) ==
    SetVal(DefaultGet(d, sid), sid, NormalizedSymbols(payload))

\* client_sessions[sid].update(normalized_symbols)
RequestData(d, sid, payload) ==
    LET d1 == DefaultGet(d, sid)
    IN  SetVal(d1, sid, Get(d1, sid) \cup NormalizedSymbols(payload))

StopDataEverywhere(d, sid, payload) ==
    LET d1 == DefaultGet(d, sid)
    IN  [i \in 1..Len(d1) |-> [d1[i] EXCEPT !.val = @ \ NormalizedSymbols(payload)]]

\* client_sessions[sid].difference_update(normalized_symbols)
StopData(d, sid, payload) ==
    LET d1 == DefaultGet(d, sid)
    IN  SetVal(d1, sid, Get(d1, sid) \ NormalizedSymbols(payload))

Authorized(secret) == secret = SERVER_SECRET_KEY

\* Observation: the per-tick record describes a tick over an unchanged registry;
\* it is dropped when a handler changes the registry.
Observe(changed) ==
    /\ mutated' = (pc # "dead" /\ (mutated \/ changed))
    /\ visited' = IF changed THEN <<>> ELSE visited
    /\ emits' = IF changed THEN EmptyMap ELSE emits
    /\ failed' = IF changed THEN {} ELSE failed
    /\ last' = NoLast
    /\ UNCHANGED << done, stale, closedAtStart >>

handle_connect_registers(c, secret) ==
    /\ Running
    /\ c \in Clients
    /\ conn[c] = "new"
    /\ client_sessions' = DefaultGet(client_sessions, c)
    /\ IF ~Authorized(secret)
       THEN /\ outbox' = [outbox EXCEPT ![c] = Append(@, "error")]
            /\ conn' = [conn EXCEPT ![c] = "rejected"]
       ELSE /\ outbox' = [outbox EXCEPT ![c] = Append(@, "connected")]
            /\ conn' = [conn EXCEPT ![c] = "connected"]
    /\ Observe(TRUE)
    /\ UNCHANGED << feedlogin, caches, pc, di, cur, fresh, env >>

handle_connect(c, secret) ==
    /\ Running
    /\ c \in Clients
    /\ conn[c] = "new"
    /\ IF ~Authorized(secret)
       THEN /\ outbox' = [outbox EXCEPT ![c] = Append(@, "error")]
            /\ conn' = [conn EXCEPT ![c] = "rejected"]
       ELSE /\ outbox' = [outbox EXCEPT ![c] = Append(@, "connected")]
            /\ conn' = [conn EXCEPT ![c] = "connected"]
    /\ Observe(FALSE)
    /\ UNCHANGED << client_sessions, feedlogin, caches, pc, di, cur, fresh, env >>

IteratingSetOf(c) == pc = "inner" /\ cur.sid = c /\ ~cur.detached

handle_request_data(c, payload) ==
    /\ Running
    /\ conn[c] = "connected"
    /\ client_sessions' = RequestData(client_sessions, c, payload)
    /\ LET added == NormalizedSymbols(payload) \ GetOr(client_sessions, c, {})
       IN  IF IteratingSetOf(c)
           THEN \* a new element lands before or after the iterator's position
                \E behind \in SUBSET added :
                   cur' = [cur EXCEPT !.passed = @ \cup behind]
           ELSE cur' = cur
    /\ Observe(client_sessions' # client_sessions)
    /\ fresh' = IF InTick
                THEN { <<c, s>> : s \in NormalizedSymbols(payload) }
                ELSE fresh
    /\ UNCHANGED << gateway, feedlogin, caches, pc, di, env >>

handle_stop_data(c, payload) ==
    /\ Running
    /\ conn[c] = "connected"
    /\ client_sessions' = StopData(client_sessions, c, payload)
    /\ cur' = IF IteratingSetOf(c)
              THEN [cur EXCEPT !.passed = @ \ NormalizedSymbols(payload)]
              ELSE cur
    /\ Observe(client_sessions' # client_sessions)
    /\ fresh' = fresh \ { <<c, s>> : s \in NormalizedSymbols(payload) }
    /\ UNCHANGED << gateway, feedlogin, caches, pc, di, env >>

handle_disconnect(c) ==
    /\ Running
    /\ conn[c] \in {"connected", "rejected"}
    /\ client_sessions' = DictPop(client_sessions, c)
    /\ conn' = [conn EXCEPT ![c] = "closed"]
    /\ cur' = IF IteratingSetOf(c)
              THEN \* the loop variable `symbols` still refers to the popped set
                   [cur EXCEPT !.detached = TRUE, !.symbols = GetOr(client_sessions, c, {})]
              ELSE cur
    /\ Observe(client_sessions' # client_sessions)
    /\ fresh' = { pr \in fresh : pr[1] # c }
    /\ UNCHANGED << outbox, feedlogin, caches, pc, di, env >>

\* ---------------------------------------------------------------- broadcaster
\* get_market_status: the feed's trade mode for the symbol ("NOINFO": symbol_info is
\* None).  Its initialize_mt5() returns the flag, which line 137 found set.
get_market_status(mode) ==
    IF mode = "FULL" THEN "open"
    ELSE IF mode = "DISABLED" THEN "closed"
    ELSE "unknown"

MarketNotOpen(market_status) == market_status # "open"

\* the test of line 151: the closing snapshot is used for a closed market only
MarketClosed(market_status) == market_status = "closed"

\* get_high_low: the cache after the call; rates is what copy_rates_range answered
\* (NoDay: nothing, or the call raised)
HighLowCacheAfter(cache, symbol, rates) ==
    IF rates # NoDay THEN Put(cache, symbol, rates) ELSE cache

KeepNone(x) == x

\* Python's `x or 0`
OrZero(x) == IF x = NoneVal \/ x = 0 THEN 0 ELSE x

ClosedDataHigh(cache, mt5_symbol, symbol, market_status) ==
    [ symbol |-> DisplayName(mt5_symbol, symbol),
      bid |-> IF mt5_symbol \in DOMAIN cache THEN cache[mt5_symbol].high ELSE 0,
      high |-> IF mt5_symbol \in DOMAIN cache THEN cache[mt5_symbol].high ELSE 0,
      low |-> IF mt5_symbol \in DOMAIN cache THEN cache[mt5_symbol].low ELSE 0,
      marketStatus |-> market_status ]

\* last_market_update_cache.get(mt5_symbol, {}).get(field, 0), lines 156-163
ClosedData(cache, mt5_symbol, symbol, market_status) ==
    [ symbol |-> DisplayName(mt5_symbol, symbol),
      bid |-> IF mt5_symbol \in DOMAIN cache THEN cache[mt5_symbol].close ELSE 0,
      high |-> IF mt5_symbol \in DOMAIN cache THEN cache[mt5_symbol].high ELSE 0,
      low |-> IF mt5_symbol \in DOMAIN cache THEN cache[mt5_symbol].low ELSE 0,
      marketStatus |-> market_status ]

LiveDataHigh(tick, rates, mt5_symbol, symbol, market_status) ==
    [ symbol |-> DisplayName(mt5_symbol, symbol),
      bid |-> OrZero(rates.high),
      high |-> OrZero(rates.high),
      low |-> OrZero(rates.low),
      marketStatus |-> market_status ]

\* lines 172-178
LiveData(tick, rates, mt5_symbol, symbol, market_status) ==
    [ symbol |-> DisplayName(mt5_symbol, symbol),
      bid |-> tick,
      high |-> OrZero(rates.high),
      low |-> OrZero(rates.low),
      marketStatus |-> market_status ]

\* Observation of one loop body: the room of its emit (0: nothing was emitted), the
\* event and the feed answers behind it: the trade mode's status, the live tick and
\* what get_high_low got from copy_rates_range (in the scenarios that do not vary
\* the feed, the room only).
Observed(room, mt5_symbol, status, tick, rates, data) ==
    IF scenario \in {"feed", "names"}
    THEN [room |-> room, mt5_symbol |-> mt5_symbol, status |-> status, tick |-> tick,
          day |-> rates, event |-> data]
    ELSE [NoLast EXCEPT !.room = room]

EmitToAll(sid, mt5_symbol, status, tick, rates, data) ==
    /\ emits' = IF mutated THEN emits
                ELSE [pr \in DOMAIN emits \cup { <<k, mt5_symbol>> : k \in Keys(client_sessions) }
                        |-> IF pr[2] = mt5_symbol THEN Count(Bump(emits, pr), pr)
                            ELSE emits[pr]]
    /\ stale' = IF cur.detached /\ stale < MaxCount THEN stale + 1 ELSE stale
    /\ last' = Observed(sid, mt5_symbol, status, tick, rates, data)
    /\ UNCHANGED failed

\* socketio.emit('market-data', data, room=sid), line 180
Emit(sid, mt5_symbol, status, tick, rates, data) ==
    /\ emits' = IF mutated THEN emits ELSE Bump(emits, <<sid, mt5_symbol>>)
    /\ stale' = IF cur.detached /\ stale < MaxCount THEN stale + 1 ELSE stale
    /\ last' = Observed(sid, mt5_symbol, status, tick, rates, data)
    /\ UNCHANGED failed

SkipEmitsDefaults(sid, mt5_symbol, status, tick) ==
    /\ emits' = Bump(emits, <<sid, mt5_symbol>>)
    /\ last' = Observed(sid, mt5_symbol, status, tick, NoDay, NoEvent)
    /\ UNCHANGED << failed, stale >>

\* `continue`, or the except clause of line 181: nothing is emitted for the pair
Skip(sid, mt5_symbol, status, tick) ==
    /\ failed' = IF mutated THEN failed ELSE failed \cup { <<sid, mt5_symbol>> }
    /\ last' = Observed(0, mt5_symbol, status, tick, NoDay, NoEvent)
    /\ UNCHANGED << emits, stale >>

\* The body of the inner loop, lines 143-182, for one (sid, symbol).
ProcessPair(sid, symbol) ==
    LET mt5_symbol == normalize_symbol(symbol)
    IN  \/ \* a feed call raises: caught at line 181
           /\ Skip(sid, mt5_symbol, "raised", NoneVal)
           /\ UNCHANGED caches
        \/ \* symbol_select fails: line 147
           /\ Skip(sid, mt5_symbol, "unselected", NoneVal)
           /\ UNCHANGED caches
        \/ \E mode \in ModeAnswers :
             LET market_status == get_market_status(mode)
             IN  IF MarketClosed(market_status)
                 THEN \E rates \in PrevAnswers(mt5_symbol) :
                        /\ last_market_update_cache' =
                              IF mt5_symbol \notin DOMAIN last_market_update_cache
                              THEN StoreLastClosing(last_market_update_cache, mt5_symbol, rates)
                              ELSE last_market_update_cache
                        /\ Emit(sid, mt5_symbol, market_status, NoneVal, NoDay,
                                ClosedData(last_market_update_cache', mt5_symbol, symbol,
                                           market_status))
                        /\ UNCHANGED high_low_cache
                 ELSE \E tick \in TickAnswers :
                        IF tick = NoneVal
                        THEN /\ Skip(sid, mt5_symbol, market_status, tick)
                             /\ UNCHANGED caches
                        ELSE \E rates \in DayAnswers :
                               /\ high_low_cache' =
                                     HighLowCacheAfter(high_low_cache, mt5_symbol, rates)
                               /\ Emit(sid, mt5_symbol, market_status, tick, rates,
                                       LiveData(tick, rates, mt5_symbol, symbol, market_status))
                               /\ UNCHANGED last_market_update_cache

\* update_rates_cache up to the creation of the dict iterator, lines 137-141:
\* without a login the tick returns at line 139.
TickStart ==
    /\ pc = "sleep"
    /\ \E ok \in BOOLEAN : initialize_mt5(ok)
    /\ IF mt5_initialized'
       THEN /\ di' = [used |-> Cardinality(Keys(client_sessions)), pos |-> 1,
                      len |-> Cardinality(Keys(client_sessions))]
            /\ pc' = "outer"
            /\ cur' = NoCur
            /\ mutated' = FALSE
            /\ done' = FALSE
            /\ visited' = <<>>
            /\ emits' = EmptyMap
            /\ failed' = {}
            /\ stale' = 0
            /\ closedAtStart' = { c \in Sids : conn[c] = "closed" }
            /\ fresh' = {}
       ELSE UNCHANGED << pc, di, cur, mutated, tickobs, fresh >>
    /\ last' = NoLast
    /\ UNCHANGED << gateway, client_sessions, high_low_cache, env >>

\* RuntimeError raised by an iterator at the `for` statement: it is outside the
\* try of line 143 and continuous_update does not catch it, so the task ends.
Die ==
    /\ pc' = "dead"
    /\ di' = NoIter
    /\ cur' = NoCur
    /\ mutated' = FALSE
    /\ visited' = <<>>
    /\ emits' = EmptyMap
    /\ failed' = {}
    /\ stale' = 0
    /\ closedAtStart' = {}
    /\ last' = NoLast
    /\ UNCHANGED << done, caches >>

LiveSlots(d, from) == { i \in from..Len(d) : d[i].key # 0 }
Min(S) == CHOOSE x \in S : \A y \in S : x <= y

\* next() on the dict iterator, line 141
OuterNext ==
    /\ pc = "outer"
    /\ IF di.used # Cardinality(Keys(client_sessions))
       THEN Die /\ UNCHANGED fresh   \* dictionary changed size during iteration
       ELSE IF LiveSlots(client_sessions, di.pos) = {}
       THEN \* StopIteration: the tick is over, socketio.sleep(0.1)
            /\ pc' = "sleep"
            /\ done' = TRUE
            /\ di' = NoIter
            /\ cur' = NoCur
            /\ last' = NoLast
            /\ fresh' = {}
            /\ UNCHANGED << mutated, visited, emits, failed, stale, closedAtStart, caches >>
       ELSE IF di.len = 0
       THEN Die /\ UNCHANGED fresh   \* dictionary keys changed during iteration
       ELSE LET i == Min(LiveSlots(client_sessions, di.pos))
            IN  /\ di' = [di EXCEPT !.pos = i + 1, !.len = @ - 1]
                /\ cur' = [sid |-> client_sessions[i].key, detached |-> FALSE, symbols |-> {},
                           used |-> Cardinality(client_sessions[i].val), passed |-> {}]
                /\ pc' = "inner"
                /\ visited' = IF mutated THEN visited
                               ELSE Append(visited, client_sessions[i].key)
                /\ emits' = EmptyMap
                /\ failed' = {}
                /\ stale' = 0
                /\ last' = NoLast
                /\ UNCHANGED << mutated, done, closedAtStart, caches, fresh >>
    /\ UNCHANGED << gateway, client_sessions, feedlogin, env >>

\* The elements behind the set iterator once the body has run for `symbol`: a
\* `continue` and the except clause both go on with the next element.
NextPassedBreak(symbol, emitted) ==
    IF emitted THEN cur.passed \cup {symbol} ELSE cur.passed \cup IterSet

NextPassed(symbol, emitted) == cur.passed \cup {symbol}

\* next() on the set iterator, line 142, and the loop body for the symbol it yields
InnerStep ==
    /\ pc = "inner"
    /\ IF Cardinality(IterSet) # cur.used
       THEN Die        \* Set changed size during iteration
       ELSE IF IterSet \ cur.passed = {}
       THEN /\ pc' = "outer"
            /\ cur' = NoCur
            /\ last' = NoLast
            /\ UNCHANGED << di, caches, mutated, tickobs >>
       ELSE \E symbol \in IterSet \ cur.passed :
              /\ ProcessPair(cur.sid, symbol)
              /\ cur' = [cur EXCEPT !.passed = NextPassed(symbol, last'.room # 0)]
              /\ UNCHANGED << pc, di, mutated, done, visited, closedAtStart >>
    /\ UNCHANGED << gateway, client_sessions, feedlogin, fresh, env >>

Broadcaster == TickStart \/ OuterNext \/ InnerStep

Handlers ==
    \/ \E c \in Sids, secret \in Secrets : handle_connect(c, secret)
    \/ \E c \in Sids, payload \in RequestPayloads : handle_request_data(c, payload)
    \/ \E c \in Sids, payload \in StopPayloads : handle_stop_data(c, payload)
    \/ \E c \in Sids : handle_disconnect(c)

Next == Startup \/ Broadcaster \/ Handlers

Spec == Init /\ [][Next]_vars

SpecFeed == InitFeed /\ [][Next]_vars

SpecGateway == InitGateway /\ [][Next]_vars

SpecNames == InitNames /\ [][Next]_vars

SpecPair == InitPair /\ [][Next]_vars

\* ---------------------------------------------------------------- properties
Range(s) == { s[i] : i \in 1..Len(s) }

RECURSIVE LiveKeys(_)
\* the keys of the dict in iteration order
LiveKeys(d) ==
    IF d = <<>> THEN <<>>
    ELSE (IF Head(d).key = 0 THEN <<>> ELSE << Head(d).key >>) \o LiveKeys(Tail(d))

\* The inner loop of the last visited connection has run to its end over an
\* unchanged registry.
LoopOver == visited # <<>> /\ ~mutated /\ (pc = "outer" \/ (pc = "sleep" /\ done))
\* A tick has run to its end over an unchanged registry.
TickOver == pc = "sleep" /\ done /\ ~mutated
LastVisited == visited[Len(visited)]

\* C1: once the disconnect of connection c has been handled the registry holds no
\* entry for c, and a tick that starts afterwards does no work for c and emits no
\* market-data event to c.
C1_DisconnectStopsBroadcast ==
    /\ \A c \in Sids : conn[c] = "closed" => c \notin Keys(client_sessions)
    /\ \A c \in closedAtStart :
          /\ last.room # c
          /\ c \notin Range(visited)
          /\ cur.sid # c
          /\ \A pr \in DOMAIN emits : pr[1] # c

\* a connection that was accepted has disconnected, and a later tick is emitting
C1_Witness ==
    \E c \in closedAtStart : outbox[c] = <<"connected">> /\ pc = "inner" /\ last.room # 0

\* C2: in a tick over an unchanged registry in which the feed answers for every
\* symbol, a connection receives exactly one market-data event per symbol of its
\* own set and none for another symbol, no event goes to another room, and the
\* tick visits every connection of the registry exactly once (three events for a
\* connection subscribed to GOLD, SILVER and PLATINUM, none for an empty or
\* absent set).
C2_OneEventPerSubscribedSymbol ==
    /\ (LoopOver /\ failed = {}) =>
          emits = [pr \in {LastVisited} \X Get(client_sessions, LastVisited) |-> 1]
    /\ \A pr \in DOMAIN emits : visited # <<>> /\ pr[1] = LastVisited
    /\ TickOver => visited = LiveKeys(client_sessions)

\* a tick is over: it visited two connections and the second one, subscribed to
\* the three metals, got its three events
C2_Witness ==
    /\ TickOver /\ failed = {} /\ Len(visited) = 2
    /\ Get(client_sessions, LastVisited) = {XAUUSD, XAGUSD, XPTUSD}
    /\ Cardinality(DOMAIN emits) = 3

\* C3: a market-data event emitted for a symbol whose market is CLOSED carries as
\* bid the close of the LastClosingSnapshot stored for the symbol, and not the
\* zero default, provided a snapshot was ever recorded for the symbol.
C3_ClosedBidIsStoredClose ==
    (last.room # 0 /\ last.status = "closed"
        /\ last.mt5_symbol \in DOMAIN last_market_update_cache) =>
       /\ last.event.bid = last_market_update_cache[last.mt5_symbol].close
       /\ last.event.bid # 0

C3_Witness ==
    /\ last.room # 0 /\ last.status = "closed"
    /\ last.mt5_symbol \in DOMAIN last_market_update_cache

\* C4: a market-data event emitted for a symbol whose market is OPEN, the feed
\* having returned a live tick, carries that tick's bid, whatever the caches hold.
C4_OpenBidIsTickBid ==
    (last.room # 0 /\ last.status = "open") =>
       /\ last.tick \in Prices
       /\ last.event.bid = last.tick

\* an open-market event for a symbol both caches hold other values for
C4_Witness ==
    /\ last.room # 0 /\ last.status = "open"
    /\ last.mt5_symbol \in DOMAIN last_market_update_cache
    /\ last.mt5_symbol \in DOMAIN high_low_cache
    /\ last.tick # high_low_cache[last.mt5_symbol].high
    /\ last.tick # last_market_update_cache[last.mt5_symbol].close

\* C5: in a tick over an unchanged registry, a feed failure or exception for one
\* pair does not keep the other pairs from being processed: every symbol of the
\* visited connection whose feed calls succeeded has its event, and the tick
\* visits every connection of the registry.
C5_FailureDoesNotStopTick ==
    /\ LoopOver =>
          \A s \in Get(client_sessions, LastVisited) :
             \/ <<LastVisited, s>> \in failed /\ Count(emits, <<LastVisited, s>>) = 0
             \/ <<LastVisited, s>> \notin failed /\ Count(emits, <<LastVisited, s>>) = 1
    /\ TickOver => Keys(client_sessions) \subseteq Range(visited)

\* the second connection of a tick had a failing symbol and still got an event
\* for another one, and the tick ran to its end
C5_Witness ==
    /\ TickOver /\ Len(visited) = 2
    /\ failed # {} /\ DOMAIN emits # {}

\* C6: a handshake with a wrong secret emits an error event first and refuses the
\* connection; the registry never holds an entry for that connection, no
\* connected and no market-data event is ever sent to it, and a later drop of
\* that id leaves the registry as it is.
C6_Rejected(c) ==
    /\ outbox[c] = <<"error">>
    /\ c \notin Keys(client_sessions)
    /\ last.room # c
    /\ c \notin Range(visited)
    /\ \A pr \in DOMAIN emits : pr[1] # c

C6_WrongSecretLeavesNoEntry ==
    /\ [](\A c \in Sids :
            (conn[c] = "rejected" \/ (outbox[c] # <<>> /\ outbox[c][1] = "error"))
               => C6_Rejected(c))
    /\ [][\A c \in Sids :
            (conn[c] = "rejected" /\ conn'[c] = "closed")
               => client_sessions' = client_sessions]_vars

\* a rejected connection has been dropped and the broadcaster is emitting
C6_Witness ==
    \E c \in Sids :
       conn[c] = "closed" /\ outbox[c] = <<"error">> /\ pc = "inner" /\ last.room # 0

\* C7: a pair subscribed while a tick is in progress, and neither unsubscribed nor
\* dropped since, is processed by the next tick: while such a pair is outstanding
\* the broadcaster is still running, so that the next tick comes.
C7_MidTickSubscribeServedNextTick ==
    fresh # {} => pc \in {"sleep", "outer", "inner"}

\* C8: the broadcaster loop never stops: whatever connection events interleave
\* with a running tick, the tick completes without an uncaught error and is
\* followed by a next tick.
C8_BroadcasterNeverStops == Running => pc # "dead"

\* C9: if the connection the loop is at disconnects while the tick is in flight,
\* the tick attempts at most one further delivery to it after the drop.
C9_AtMostOneStaleDelivery == stale <= 1

\* C10: request-data is a normalizing set union and is idempotent: afterwards the
\* caller's set is its previous set united with the normalized symbols of the
\* payload, handling the same payload again leaves the registry as it is, and a
\* bare value behaves as the one-element list of that value.
C10_RequestDataIsIdempotentUnion ==
    [][\A c \in Sids, payload \in RequestPayloads :
          handle_request_data(c, payload) =>
             /\ c \in Keys(client_sessions')
             /\ Get(client_sessions', c) =
                   GetOr(client_sessions, c, {})
                      \cup { normalize_symbol(x) : x \in Range(payload.items) }
             /\ RequestData(client_sessions', c, payload) = client_sessions'
             /\ (~payload.islist =>
                   client_sessions' =
                      RequestData(client_sessions, c, ListOf(<< payload.items[1] >>)))]_vars

\* the caller's set is the union of two requests with different aliases
C10_Witness ==
    \E c \in Keys(client_sessions) : Get(client_sessions, c) = {XAUUSD, XAGUSD, StrUpper(eurusd_lc)}

\* the registry as a mapping from connection id to subscription set
RegistryMap(d) == [k \in Keys(d) |-> Get(d, k)]

\* C11: stop-data for symbols none of which is in the caller's set leaves the
\* connection-to-set mapping as it is, also when the caller has no entry.
C11_StopAbsentIsNoOp ==
    [][\A c \in Sids, payload \in StopPayloads :
          (/\ handle_stop_data(c, payload)
           /\ NormalizedSymbols(payload) \cap GetOr(client_sessions, c, {}) = {})
             => RegistryMap(client_sessions') = RegistryMap(client_sessions)]_vars

AsciiOnly(s) == \A i \in 1..Len(s) : s[i] # KelvinSign

\* C12 as stated: the display name of every emitted event normalizes back to the
\* canonical symbol the event is about, and for a symbol without an alias the
\* display name is the title-cased symbol.
C12_DisplayNameNormalizesBack ==
    last.room # 0 =>
       /\ normalize_symbol(last.event.symbol) = last.mt5_symbol
       /\ last.mt5_symbol \notin SymbolMapValues =>
             last.event.symbol = StrTitle(last.mt5_symbol)

\* C12 amended: the same, for the symbols that have an alias and for the symbols
\* without one whose characters are all ASCII.
C12_AsciiDisplayNameNormalizesBack ==
    (last.room # 0 /\ (last.mt5_symbol \in SymbolMapValues \/ AsciiOnly(last.mt5_symbol))) =>
       /\ normalize_symbol(last.event.symbol) = last.mt5_symbol
       /\ last.mt5_symbol \notin SymbolMapValues =>
             last.event.symbol = StrTitle(last.mt5_symbol)

\* an event for a symbol without an alias has been emitted after one for GOLD
C12_Witness ==
    /\ last.room # 0 /\ last.mt5_symbol = StrUpper(eurusd_lc)
    /\ last.event.symbol = <<"E","u","r","u","s","d">>
    /\ \E c \in Keys(client_sessions) : XAUUSD \in Get(client_sessions, c)

\* what the registry holds for connection b
Entry(d, b) == IF b \in Keys(d) THEN << TRUE, Get(d, b) >> ELSE << FALSE, {} >>

\* C13: a request-data, stop-data or disconnect event of connection a leaves what
\* the registry holds for every other connection as it is, and a step of the
\* broadcaster leaves the whole registry as it is: a step that changes what the
\* registry holds for b is no step of the broadcaster and no event of another
\* connection.
C13_SubscriptionsArePerConnection ==
    [][\A b \in Sids :
          (client_sessions' # client_sessions
              /\ Entry(client_sessions', b) # Entry(client_sessions, b)) =>
             /\ ~Broadcaster
             /\ \A a \in Sids \ {b} :
                   /\ \A payload \in RequestPayloads : ~handle_request_data(a, payload)
                   /\ \A payload \in StopPayloads : ~handle_stop_data(a, payload)
                   /\ ~handle_disconnect(a)]_vars

\* two connections hold different sets and a tick has run over them
C13_Witness ==
    /\ TickOver /\ Len(visited) = 2
    /\ \E a, b \in Keys(client_sessions) :
          /\ Get(client_sessions, a) = {XAGUSD}
          /\ Get(client_sessions, b) = {XAUUSD, XAGUSD}

\* C14: once a tick has emitted a live observation for a symbol (market not
\* closed, live tick returned), the closing snapshot stored for the symbol is that
\* observation.
C14_LiveTickOverwritesSnapshot ==
    (last.room # 0 /\ last.status # "closed") =>
       /\ last.mt5_symbol \in DOMAIN last_market_update_cache
       /\ last_market_update_cache[last.mt5_symbol].close = last.tick

\* C15: within one calendar day (the code never looks at a date, so two calls of
\* get_high_low may always fall on the same day), a live event for a symbol whose
\* daily extremes are cached carries the cached high and low, and the call leaves
\* the cache entry as it is.
C15_HighLowServedFromCache ==
    [][(/\ last'.room # 0
        /\ last'.status # "closed"
        /\ last'.mt5_symbol \in DOMAIN high_low_cache) =>
          /\ high_low_cache' = high_low_cache
          /\ last'.event.high = high_low_cache[last'.mt5_symbol].high
          /\ last'.event.low = high_low_cache[last'.mt5_symbol].low]_vars

\* the loop body that has just run found the symbol unselectable, or found the
\* market not closed and got no live tick
SkippedPair(l) ==
    /\ l.mt5_symbol # <<>>
    /\ \/ l.status = "unselected"
       \/ l.status \in {"open", "unknown"} /\ l.tick = NoneVal

\* C16: when the feed cannot select a subscribed symbol, or the market is not
\* closed and the feed returns no live tick, the tick emits nothing for the pair,
\* and the processing of the pair leaves the registry, the connections and both
\* caches as they are.
C16_SkippedPairChangesNothing ==
    [][SkippedPair(last') =>
          /\ last'.room = 0
          /\ emits' = emits
          /\ client_sessions' = client_sessions
          /\ cur.sid \in Keys(client_sessions') => last'.mt5_symbol \in Get(client_sessions', cur.sid)
          /\ conn' = conn /\ outbox' = outbox
          /\ high_low_cache' = high_low_cache
          /\ last_market_update_cache' = last_market_update_cache]_vars

\* a live tick was missing for a symbol both caches hold values for
C16_Witness ==
    /\ SkippedPair(last) /\ last.status = "open"
    /\ last.mt5_symbol \in DOMAIN high_low_cache
    /\ last.mt5_symbol \in DOMAIN last_market_update_cache

\* the loop body that has just run found the market not closed, got a live tick
\* and got no bar range for the day
NoBarRange(l) ==
    /\ l.mt5_symbol # <<>>
    /\ l.status \in {"open", "unknown"}
    /\ l.tick # NoneVal
    /\ l.day = NoDay

\* C17 as stated: with the market not closed and a live tick, a symbol for which
\* the feed returns no bar range is skipped, no event is emitted for the pair.
C17_MissingBarsSkipSymbol == NoBarRange(last) => last.room = 0

\* C17 amended: the event is emitted all the same, to the subscriber's room, with
\* the tick's bid and with zero for high and low.
C17_MissingBarsReportZero ==
    NoBarRange(last) =>
       /\ last.room # 0
       /\ last.event.bid = last.tick
       /\ last.event.high = 0 /\ last.event.low = 0
       /\ last.event.marketStatus = last.status

\* no bar range came back for a symbol whose extremes of an earlier call are cached
C17_Witness ==
    /\ NoBarRange(last)
    /\ last.mt5_symbol \in DOMAIN high_low_cache

\* C18: the feed login succeeds at most once per process: once the flag is set no
\* step logs in again, and a process whose startup login failed takes no step, so
\* that no tick and no connection handler runs in it.
C18_LoginAtMostOnce ==
    /\ [](logins <= 1 /\ (mt5_initialized <=> logins = 1))
    /\ [][mt5_initialized => logins' = logins]_vars
    /\ [][pc # "exited"]_vars
    /\ [](pc = "exited" =>
            /\ logins = 0
            /\ \A c \in Sids : conn[c] = "new" /\ outbox[c] = <<>>
            /\ client_sessions = <<>> /\ visited = <<>>)

\* after the one login, handlers have run and a tick has run to its end
C18_Witness ==
    /\ logins = 1 /\ TickOver /\ visited # <<>>
    /\ \E c \in Sids : outbox[c] = <<"connected">>

\* C19: every key of the registry is the id of a connection that passed the
\* handshake and has not disconnected; no entry is left for a rejected or closed
\* connection, nor for one that never connected.
C19_RegistryKeysAreLiveConnections ==
    \A c \in Keys(client_sessions) : conn[c] = "connected" /\ outbox[c] = <<"connected">>

\* the registry holds an entry while a connection that had one has disconnected
C19_Witness ==
    /\ Keys(client_sessions) # {}
    /\ \E c \in Sids : conn[c] = "closed" /\ outbox[c] = <<"connected">> /\ c \in closedAtStart
    /\ Len(client_sessions) > Cardinality(Keys(client_sessions))

\* C20: a symbol whose market status is unknown is processed like an open one:
\* the live tick is asked for; without one nothing is emitted, with one the event
\* carries the tick's bid, the day's high and low (zero without bars) and the
\* status unknown.  The closing snapshot is used when the status is closed only:
\* an event without a live tick behind it is a closed-market event.
C20_UnknownHandledLikeOpen ==
    /\ (last.mt5_symbol # <<>> /\ last.status \in {"open", "unknown"}) =>
          IF last.tick = NoneVal
          THEN last.room = 0
          ELSE /\ last.room # 0
               /\ last.event.bid = last.tick
               /\ last.event.high = (IF last.day = NoDay THEN 0 ELSE last.day.high)
               /\ last.event.low = (IF last.day = NoDay THEN 0 ELSE last.day.low)
               /\ last.event.marketStatus = last.status
    /\ (last.room # 0 /\ last.tick = NoneVal) =>
          last.status = "closed" /\ last.event.marketStatus = "closed"

\* an event with status unknown for a symbol that has a closing snapshot
C20_Witness ==
    /\ last.room # 0 /\ last.status = "unknown"
    /\ last.event.marketStatus = "unknown"
    /\ last.mt5_symbol \in DOMAIN last_market_update_cache
    /\ last_market_update_cache[last.mt5_symbol].close # last.event.bid
====
